---- MODULE Spec2Model ----
(***************************************************************************)
(* Model of the web QA tooling of claude-skills:                           *)
(*   - cross_browser.py  : CrossBrowserTester and its main (matrix mode)   *)
(*   - browser_utils.py  : BrowserManager (the with statement it is used   *)
(*                         in by _test_single_browser)                     *)
(*   - visual_regression.py : VisualTester and its main (baseline and      *)
(*                         compare mode), and _compare_images              *)
(*   - browser_utils.py  : navigate_with_retry, MultiBrowserManager and    *)
(*                         BrowserManager.__exit__ step by step            *)
(*   - analyze_task.py   : detect_assignee_type                            *)
(* The specifications share the variables: Spec (matrix mode), SpecVisual  *)
(* (baseline / compare mode), SpecDiff (_compare_images on bounded         *)
(* images), SpecTools (both tools) and SpecUtils (the utilities, one call  *)
(* each).  The browser, the page and the file system are the               *)
(* environment: every outcome they can produce is a nondeterministic       *)
(* choice of the action that calls them.                                   *)
(***************************************************************************)
EXTENDS Integers, Sequences, FiniteSets, TLC

VARIABLES
    \* ---- cross_browser.py
    browsers,       \* main: the parsed --browsers list
    output,         \* main: whether --output was given
    pc,             \* position of main / test_browsers / _test_single_browser
    i,              \* test_browsers: index of the for loop (1-based)
    results,        \* test_browsers: the local list results
    self_results,   \* CrossBrowserTester.results
    tests,          \* _test_single_browser: the local list tests
    responses,      \* history: per target run, what the browser answered
    open,           \* resources of the current BrowserManager that are open
    leaked,         \* resources of earlier managers never closed
    warnings,       \* Logger.warning calls (browser names)
    summary,        \* print_summary: the rows printed
    report,         \* generate_html_report: <<summary_stats>>, <<>> before
    exit_code,      \* <<status>> once sys.exit was called, <<>> before
    \* ---- visual_regression.py
    vstate,         \* state of the VisualTester run (a record)
    \* ---- _compare_images
    dstate,         \* state of one _compare_images call (a record)
    \* ---- browser_utils.py and analyze_task.py
    ustate          \* state of one call of a utility (a record)

mvars == <<browsers, output, pc, i, results, self_results, tests, responses,
           open, leaked, warnings, summary, report, exit_code>>
vars == <<mvars, vstate, dstate, ustate>>

\* exit_code while the process runs; sys.exit(c) makes it <<c>>
NoExit == <<>>

\* entries of responses: BrowserManager.__enter__ raised, page.goto raised,
\* page.goto returned a response with an HTTP status
EnterFailed == [kind |-> "enter_raised", status |-> 0]
GotoRaised == [kind |-> "goto_raised", status |-> 0]
Response(status) == [kind |-> "response", status |-> status]

(***************************************************************************)
(* Bounds of the model.                                                    *)
(***************************************************************************)
MaxBrowsers == 2

Range(s) == {s[k] : k \in 1..Len(s)}

\* the lists str.split(',') can give: at least one element, at most n
SeqsUpTo(S, n) == UNION {[1..k -> S] : k \in 1..n}

(***************************************************************************)
(* constants.py                                                            *)
(***************************************************************************)
SUPPORTED_BROWSERS == <<"chromium", "firefox", "webkit">>

BROWSER_ALIASES == [chrome |-> "chromium", ff |-> "firefox", safari |-> "webkit"]

\* str.lower() on the names the model requests
Lower(name) ==
    CASE name = "FF" -> "ff"
      [] name = "Chrome" -> "chrome"
      [] OTHER -> name

\* str.upper() on the names the model requests
Upper(name) ==
    CASE name = "chrome" -> "CHROME"
      [] name = "Chrome" -> "CHROME"
      [] name = "chromium" -> "CHROMIUM"
      [] name = "firefox" -> "FIREFOX"
      [] name = "FF" -> "FF"
      [] name = "webkit" -> "WEBKIT"
      [] name = "bogus" -> "BOGUS"
      [] OTHER -> name

\* BROWSER_ALIASES.get(browser_name.lower(), browser_name.lower())
ResolveEngine(browser_name) ==
    LET key == Lower(browser_name)
    IN  IF key \in DOMAIN BROWSER_ALIASES THEN BROWSER_ALIASES[key] ELSE key

(***************************************************************************)
(* The inputs the environment is drawn from.                               *)
(***************************************************************************)
BrowserNames == {"chrome", "chromium", "FF", "bogus"}

\* --browsers all
AllBrowsers == <<"chrome", "firefox", "webkit">>

BrowserLists == SeqsUpTo(BrowserNames, MaxBrowsers) \cup {AllBrowsers}

HttpStatuses == {200, 400, 500}

\* elapsed time of page.goto, in tenths of a second (the code compares with 5.0)
Elapsed == {50, 51}

SlowLoadTenths == 50

ElementCounts == {0, 1}

\* the points of BrowserManager.__enter__ that can raise
EnterFailures == {"start", "launch", "new_context", "new_page"}

Msg(kind, code) == [kind |-> kind, code |-> code]

StepResult(test, status, message) ==
    [test |-> test, status |-> status, message |-> message]

(***************************************************************************)
(* cross_browser.py: CrossBrowserTester                                    *)
(***************************************************************************)
MInit ==
    /\ browsers \in BrowserLists
    /\ output \in BOOLEAN
    /\ pc = "loop"
    /\ i = 1
    /\ results = <<>>
    /\ self_results = <<>>
    /\ tests = <<>>
    /\ responses = <<>>
    /\ open = {}
    /\ leaked = {}
    /\ warnings = <<>>
    /\ summary = <<>>
    /\ report = <<>>
    /\ exit_code = NoExit

\* the result test_browsers appends when _test_single_browser raised
ErrorResult(browser_name, engine) ==
    [browser |-> browser_name, engine |-> engine, status |-> "ERROR",
     details |-> "exception", tests |-> <<>>]

\* mutant: an unknown name ends the loop (break in place of continue)
TestBrowsersNext_UnknownBreaks ==
    /\ pc = "loop"
    /\ IF i > Len(browsers)
       THEN /\ self_results' = results
            /\ pc' = "summary"
            /\ UNCHANGED <<i, warnings>>
       ELSE LET engine == ResolveEngine(browsers[i])
            IN  IF engine \notin Range(SUPPORTED_BROWSERS)
                THEN /\ warnings' = Append(warnings, browsers[i])
                     /\ i' = Len(browsers) + 1
                     /\ pc' = "loop"
                     /\ UNCHANGED self_results
                ELSE /\ pc' = "enter"
                     /\ UNCHANGED <<i, warnings, self_results>>
    /\ UNCHANGED <<browsers, output, results, tests, responses, open, leaked,
                   summary, exit_code, report, vstate, dstate, ustate>>

\* test_browsers: one pass of the loop head (alias lookup, the supported
\* check) or, past the last name, self.results = results and the return
TestBrowsersNext ==
    /\ pc = "loop"
    /\ IF i > Len(browsers)
       THEN /\ self_results' = results
            /\ pc' = "summary"
            /\ UNCHANGED <<i, warnings>>
       ELSE LET engine == ResolveEngine(browsers[i])
            IN  IF engine \notin Range(SUPPORTED_BROWSERS)
                THEN /\ warnings' = Append(warnings, browsers[i])
                     /\ i' = i + 1
                     /\ pc' = "loop"
                     /\ UNCHANGED self_results
                ELSE /\ pc' = "enter"
                     /\ UNCHANGED <<i, warnings, self_results>>
    /\ UNCHANGED <<browsers, output, results, tests, responses, open, leaked,
                   summary, exit_code, report, vstate, dstate, ustate>>

\* the resources __enter__ has started when it raises at `point`
StartedBefore(point) ==
    CASE point = "start" -> {}
      [] point = "launch" -> {"playwright"}
      [] point = "new_context" -> {"playwright", "browser"}
      [] point = "new_page" -> {"playwright", "browser", "context"}

\* BrowserManager.__enter__ succeeds: the with body starts
BrowserManagerEnter ==
    /\ pc = "enter"
    /\ open' = {"playwright", "browser", "context", "page"}
    /\ tests' = <<>>
    /\ pc' = "load"
    /\ UNCHANGED <<browsers, output, i, results, self_results, responses,
                   leaked, warnings, summary, exit_code, report, vstate, dstate, ustate>>

\* BrowserManager.__enter__ raises: __exit__ is not called, what was started
\* stays open, and the exception leaves _test_single_browser
EnterRaises ==
    /\ pc = "enter"
    /\ \E point \in EnterFailures :
          leaked' = leaked \cup StartedBefore(point)
    /\ responses' = Append(responses, EnterFailed)
    /\ pc' = "raised"
    /\ UNCHANGED <<browsers, output, i, results, self_results, tests, open,
                   warnings, summary, exit_code, report, vstate, dstate, ustate>>

\* mutant: the ERROR result is put in front (results.insert(0, ...))
TestBrowsersExcept_Prepends ==
    /\ pc = "raised"
    /\ results' = <<ErrorResult(browsers[i], ResolveEngine(browsers[i]))>> \o results
    /\ i' = i + 1
    /\ pc' = "loop"
    /\ UNCHANGED <<browsers, output, self_results, tests, responses, open,
                   leaked, warnings, summary, exit_code, report, vstate, dstate, ustate>>

\* mutant: no except clause, the exception reaches main's except
TestBrowsersExcept_Propagates ==
    /\ pc = "raised"
    /\ exit_code' = <<1>>
    /\ pc' = "done"
    /\ UNCHANGED <<browsers, output, i, results, self_results, tests, responses,
                   open, leaked, warnings, summary, report, vstate, dstate, ustate>>

\* test_browsers: except Exception around _test_single_browser, then the
\* next pass of the loop
TestBrowsersExcept ==
    /\ pc = "raised"
    /\ results' = Append(results, ErrorResult(browsers[i], ResolveEngine(browsers[i])))
    /\ i' = i + 1
    /\ pc' = "loop"
    /\ UNCHANGED <<browsers, output, self_results, tests, responses, open,
                   leaked, warnings, summary, exit_code, report, vstate, dstate, ustate>>

\* mutant: the elapsed time is looked at before the HTTP status
PageLoadResult_SlowFirst(raised, status, elapsed) ==
    IF raised
    THEN StepResult("Load page", "FAIL", Msg("exception", 0))
    ELSE IF elapsed > SlowLoadTenths
         THEN StepResult("Load page", "WARN", Msg("Loaded (slow)", elapsed))
         ELSE IF status >= 400
              THEN StepResult("Load page", "FAIL", Msg("HTTP", status))
              ELSE StepResult("Load page", "PASS", Msg("Loaded in", elapsed))

\* _test_page_load, given what page.goto did
PageLoadResult(raised, status, elapsed) ==
    IF raised
    THEN StepResult("Load page", "FAIL", Msg("exception", 0))
    ELSE IF status >= 400
         THEN StepResult("Load page", "FAIL", Msg("HTTP", status))
         ELSE IF elapsed > SlowLoadTenths
              THEN StepResult("Load page", "WARN", Msg("Loaded (slow)", elapsed))
              ELSE StepResult("Load page", "PASS", Msg("Loaded in", elapsed))

\* _test_single_browser: whether the interaction and console steps follow
RunsFurtherSteps(test_result) == test_result.status = "PASS"

\* _test_single_browser, Test 1
TestPageLoad ==
    /\ pc = "load"
    /\ \E raised \in BOOLEAN, status \in HttpStatuses, elapsed \in Elapsed :
          LET test_result == PageLoadResult(raised, status, elapsed)
          IN  /\ tests' = Append(tests, test_result)
              /\ responses' = Append(responses, IF raised THEN GotoRaised ELSE Response(status))
              /\ pc' = IF RunsFurtherSteps(test_result) THEN "interact" ELSE "exit"
    /\ UNCHANGED <<browsers, output, i, results, self_results, open, leaked,
                   warnings, summary, exit_code, report, vstate, dstate, ustate>>

\* mutant: a page without interactive elements passes
InteractionResult_ZeroPasses(raised, buttons, links, inputs) ==
    IF raised
    THEN StepResult("Basic interactions", "FAIL", Msg("exception", 0))
    ELSE StepResult("Basic interactions", "PASS", Msg("Found", buttons + links + inputs))

\* _test_basic_interactions, given what the locators did
InteractionResult(raised, buttons, links, inputs) ==
    IF raised
    THEN StepResult("Basic interactions", "FAIL", Msg("exception", 0))
    ELSE IF buttons + links + inputs = 0
         THEN StepResult("Basic interactions", "WARN", Msg("No interactive elements found", 0))
         ELSE StepResult("Basic interactions", "PASS", Msg("Found", buttons + links + inputs))

\* mutant: the console step is skipped when the interaction step failed
TestBasicInteractions_FailSkipsConsole ==
    /\ pc = "interact"
    /\ \E raised \in BOOLEAN, buttons, links, inputs \in ElementCounts :
          /\ tests' = Append(tests, InteractionResult(raised, buttons, links, inputs))
          /\ pc' = IF raised THEN "exit" ELSE "console"
    /\ UNCHANGED <<browsers, output, i, results, self_results, responses, open,
                   leaked, warnings, summary, exit_code, report, vstate, dstate, ustate>>

\* _test_single_browser, Test 2
TestBasicInteractions ==
    /\ pc = "interact"
    /\ \E raised \in BOOLEAN, buttons, links, inputs \in ElementCounts :
          tests' = Append(tests, InteractionResult(raised, buttons, links, inputs))
    /\ pc' = "console"
    /\ UNCHANGED <<browsers, output, i, results, self_results, responses, open,
                   leaked, warnings, summary, exit_code, report, vstate, dstate, ustate>>

\* mutant: a console check that cannot be performed fails the step
ConsoleResult_FailOnRaise(raised) ==
    IF raised
    THEN StepResult("Console errors", "FAIL", Msg("Could not check console", 0))
    ELSE StepResult("Console errors", "PASS", Msg("No obvious console errors", 0))

\* _test_console_errors, given what page.evaluate did
ConsoleResult(raised) ==
    IF raised
    THEN StepResult("Console errors", "WARN", Msg("Could not check console", 0))
    ELSE StepResult("Console errors", "PASS", Msg("No obvious console errors", 0))

\* _test_single_browser, Test 3
TestConsoleErrors ==
    /\ pc = "console"
    /\ \E raised \in BOOLEAN :
          tests' = Append(tests, ConsoleResult(raised))
    /\ pc' = "exit"
    /\ UNCHANGED <<browsers, output, i, results, self_results, responses, open,
                   leaked, warnings, summary, exit_code, report, vstate, dstate, ustate>>

\* mutant: the warnings are looked at before the failures
OverallStatus_WarnFirst(ts) ==
    IF \E k \in 1..Len(ts) : ts[k].status = "WARN"
    THEN "WARN"
    ELSE IF \E k \in 1..Len(ts) : ts[k].status = "FAIL"
         THEN "FAIL"
         ELSE "PASS"

\* _test_single_browser: "Determine overall status"
OverallStatus(ts) ==
    IF \E k \in 1..Len(ts) : ts[k].status = "FAIL"
    THEN "FAIL"
    ELSE IF \E k \in 1..Len(ts) : ts[k].status = "WARN"
         THEN "WARN"
         ELSE "PASS"

\* _test_single_browser: the details that go with the status
OverallDetails(ts) ==
    IF \E k \in 1..Len(ts) : ts[k].status = "FAIL"
    THEN "All tests passed"
    ELSE IF \E k \in 1..Len(ts) : ts[k].status = "WARN"
         THEN "Some tests have warnings"
         ELSE "All tests passed"

\* the dict _test_single_browser returns
SingleBrowserResult(browser_name, engine, ts) ==
    [browser |-> browser_name, engine |-> engine, status |-> OverallStatus(ts),
     details |-> OverallDetails(ts), tests |-> ts]

\* mutant: a failed target ends the loop
BrowserManagerExit_AbortOnFail ==
    /\ pc = "exit"
    /\ open' = {}
    /\ results' = Append(results,
          SingleBrowserResult(browsers[i], ResolveEngine(browsers[i]), tests))
    /\ i' = IF OverallStatus(tests) = "FAIL" THEN Len(browsers) + 1 ELSE i + 1
    /\ pc' = "loop"
    /\ UNCHANGED <<browsers, output, self_results, tests, responses, leaked,
                   warnings, summary, exit_code, report, vstate, dstate, ustate>>

\* the with block ends: BrowserManager.__exit__ closes context, browser and
\* Playwright (errors ignored), _test_single_browser rolls the steps up and
\* returns, test_browsers appends the result
BrowserManagerExit ==
    /\ pc = "exit"
    /\ open' = {}
    /\ results' = Append(results,
          SingleBrowserResult(browsers[i], ResolveEngine(browsers[i]), tests))
    /\ i' = i + 1
    /\ pc' = "loop"
    /\ UNCHANGED <<browsers, output, self_results, tests, responses, leaked,
                   warnings, summary, exit_code, report, vstate, dstate, ustate>>

\* print_summary: the row of one result
SummaryRow(result) ==
    [browser |-> Upper(result.browser),
     status |-> IF result.status \in {"PASS", "WARN", "FAIL"}
                THEN result.status ELSE "ERROR",
     details |-> SelectSeq(result.tests, LAMBDA t : t.status \in {"FAIL", "WARN"})]

\* main: tester.print_summary()
PrintSummary ==
    /\ pc = "summary"
    /\ summary' = [k \in 1..Len(self_results) |-> SummaryRow(self_results[k])]
    /\ pc' = "report"
    /\ UNCHANGED <<browsers, output, i, results, self_results, tests, responses,
                   open, leaked, warnings, exit_code, report, vstate, dstate, ustate>>

\* main: "Exit with error code if any browser failed"
MatrixExitCode(rs) ==
    IF \E k \in 1..Len(rs) : rs[k].status = "FAIL" THEN 1 ELSE 0

\* generate_html_report: "Calculate summary statistics"
SummaryStats(rs) ==
    [passed |-> Cardinality({k \in 1..Len(rs) : rs[k].status = "PASS"}),
     failed |-> Cardinality({k \in 1..Len(rs) : rs[k].status = "FAIL"}),
     errors |-> Cardinality({k \in 1..Len(rs) : rs[k].status = "ERROR"}),
     total |-> Len(rs)]

\* main: generate_html_report when --output is given (it returns early
\* without results; report.save writes a file and may raise, which main's
\* except turns into exit status 1), then sys.exit
MainExit ==
    /\ pc = "report"
    /\ report' = IF output /\ self_results # <<>>
                 THEN <<SummaryStats(self_results)>>
                 ELSE <<>>
    /\ \E save_raises \in BOOLEAN :
          exit_code' = IF output /\ self_results # <<>> /\ save_raises
                       THEN <<1>>
                       ELSE <<MatrixExitCode(self_results)>>
    /\ pc' = "done"
    /\ UNCHANGED <<browsers, output, i, results, self_results, tests, responses,
                   open, leaked, warnings, summary, vstate, dstate, ustate>>

VIdle == vstate = [mode |-> "idle", pc |-> "idle"]

DIdle == dstate = [mode |-> "idle"]

UIdle == ustate = [mode |-> "idle", pc |-> "idle"]

Init == MInit /\ VIdle /\ DIdle /\ UIdle

Next ==
    \/ TestBrowsersNext
    \/ BrowserManagerEnter
    \/ EnterRaises
    \/ TestBrowsersExcept
    \/ TestPageLoad
    \/ TestBasicInteractions
    \/ TestConsoleErrors
    \/ BrowserManagerExit
    \/ PrintSummary
    \/ MainExit

Spec == Init /\ [][Next]_vars

(***************************************************************************)
(* Claims about matrix mode (specification Spec).                          *)
(***************************************************************************)
Last(s) == s[Len(s)]

Front(s) == SubSeq(s, 1, Len(s) - 1)

Finished == pc \in {"summary", "report", "done"}

\* the requested names that resolve to a supported engine, in request order
SupportedNames(bs) ==
    SelectSeq(bs, LAMBDA b : ResolveEngine(b) \in Range(SUPPORTED_BROWSERS))

\* C1: when the single-browser run of a supported browser raises, the
\* exception does not leave test_browsers: exactly one result with status
\* ERROR and an empty tests list is appended for that browser, and the loop
\* goes on with the next requested browser.
C1_ExceptionBecomesErrorResult ==
    [][pc = "raised" =>
          /\ pc' = "loop"
          /\ i' = i + 1
          /\ exit_code' = NoExit
          /\ Len(results') = Len(results) + 1
          /\ Front(results') = results
          /\ Last(results').browser = browsers[i]
          /\ Last(results').status = "ERROR"
          /\ Last(results').tests = <<>>]_vars

C1_Witness ==
    /\ Len(results) = 2
    /\ results[1].status = "ERROR"
    /\ results[2].status = "PASS"

\* C2: test_browsers never aborts early: whatever the outcomes of the
\* earlier targets, the returned list holds exactly one result for every
\* requested name that resolves to a supported engine; a target whose page
\* load answered HTTP 500 has status FAIL with a message containing 500.
C2_NoEarlyAbort ==
    /\ pc = "summary" => i = Len(browsers) + 1
    /\ Finished =>
          LET want == SupportedNames(browsers)
          IN  /\ Len(self_results) = Len(want)
              /\ \A k \in 1..Len(self_results) :
                    /\ self_results[k].browser = want[k]
                    /\ responses[k] = Response(500) =>
                          /\ self_results[k].status = "FAIL"
                          /\ self_results[k].tests[1].message = Msg("HTTP", 500)

C2_Witness ==
    /\ pc = "done"
    /\ Len(self_results) = 2
    /\ responses[1] = Response(500)
    /\ self_results[1].status = "FAIL"
    /\ self_results[2].status = "PASS"

\* C5 (as claimed, matrix mode): the exit status is 1 if any per-target
\* result has status FAIL or ERROR, and 0 only if none has.
C5_ExitReflectsFailOrError ==
    pc = "done" =>
       LET bad == \E k \in 1..Len(self_results) :
                      self_results[k].status \in {"FAIL", "ERROR"}
       IN  /\ bad => exit_code = <<1>>
           /\ exit_code = <<0>> => ~bad

\* C6 (as claimed): the interaction step and the console-error step run if
\* and only if the load step did not end with status FAIL.
C6_FurtherStepsIffLoadNotFail ==
    \A k \in 1..Len(results) :
        results[k].status # "ERROR" =>
           ((/\ Len(results[k].tests) = 3
             /\ results[k].tests[2].test = "Basic interactions"
             /\ results[k].tests[3].test = "Console errors")
            <=> results[k].tests[1].status # "FAIL")

Rank(status) ==
    CASE status = "FAIL" -> 2
      [] status = "WARN" -> 1
      [] status = "PASS" -> 0

Max(S) == CHOOSE x \in S : \A y \in S : y <= x

\* C7: the status of every result of _test_single_browser is the worst of
\* its steps' statuses under FAIL > WARN > PASS; status ERROR occurs only on
\* the results test_browsers builds when the run raised, and those have no
\* steps.
C7_StatusIsWorstStep ==
    /\ Len(results) <= Len(responses)
    /\ \A k \in 1..Len(results) :
        LET r == results[k]
        IN  IF responses[k] = EnterFailed
            THEN r.status = "ERROR" /\ r.tests = <<>>
            ELSE /\ r.tests # <<>>
                 /\ r.status \in {"FAIL", "WARN", "PASS"}
                 /\ Rank(r.status) =
                       Max({Rank(r.tests[j].status) : j \in 1..Len(r.tests)})

C7_Witness ==
    \E k \in 1..Len(results) :
        /\ results[k].status = "FAIL"
        /\ Len(results[k].tests) = 3
        /\ results[k].tests[1].status = "PASS"
        /\ results[k].tests[2].status = "FAIL"
        /\ results[k].tests[3].status = "WARN"

(***************************************************************************)
(* visual_regression.py: VisualTester._compare_images                      *)
(*                                                                         *)
(* An image is [size |-> <<width, height>>, data |-> the pixels row by     *)
(* row], a pixel is <<r, g, b>>.  Python floats are modelled as exact      *)
(* fractions [num, den]; rounding is not modelled.                         *)
(***************************************************************************)
MaxPixels == 2

Black == <<0, 0, 0>>
Red == <<255, 0, 0>>
White == <<255, 255, 255>>

Colours == {Black, Red, White}

Sizes == {<<w, h>> : w \in 1..MaxPixels, h \in 1..MaxPixels}

Images ==
    UNION {{[size |-> sz, data |-> d] : d \in [1..(sz[1] * sz[2]) -> Colours]} :
              sz \in {z \in Sizes : z[1] * z[2] <= MaxPixels}}

Frac(n, d) == [num |-> n, den |-> d]

\* --threshold values: 0, 0.05, 1/3, 0.5 and 1
Thresholds == {Frac(0, 1), Frac(1, 20), Frac(1, 3), Frac(1, 2), Frac(1, 1)}

\* a <= b on fractions with positive denominators
FracLeq(a, b) == a.num * b.den <= b.num * a.den

FracEq(a, b) == a.num * b.den = b.num * a.den

Abs(x) == IF x < 0 THEN -x ELSE x

Min(a, b) == IF a < b THEN a ELSE b

\* mutant: ImageChops.add in place of ImageChops.difference
Difference_Add(baseline_img, current_img) ==
    [size |-> baseline_img.size,
     data |-> [k \in 1..Len(baseline_img.data) |->
                 [c \in 1..3 |->
                    Min(255, baseline_img.data[k][c] + current_img.data[k][c])]]]

\* ImageChops.difference: the absolute difference, channel by channel
Difference(baseline_img, current_img) ==
    [size |-> baseline_img.size,
     data |-> [k \in 1..Len(baseline_img.data) |->
                 [c \in 1..3 |->
                    Abs(baseline_img.data[k][c] - current_img.data[k][c])]]]

\* np.array(diff).size: the height x width x 3 entries of the array
ArraySize(diff) == Len(diff.data) * 3

\* np.count_nonzero(np.array(diff)): the nonzero entries of the array
CountNonzero(diff) ==
    Cardinality({<<k, c>> \in (1..Len(diff.data)) \X (1..3) : diff.data[k][c] # 0})

\* diff_percentage = (changed_pixels / total_pixels) * 100
DiffPercentage(diff) == Frac(CountNonzero(diff) * 100, ArraySize(diff))

\* diff_percentage / 100
DividedBy100(f) == Frac(f.num, f.den * 100)

\* mutant: a strict comparison with the threshold
Passed_Strict(diff_percentage, threshold) ==
    /\ FracLeq(DividedBy100(diff_percentage), threshold)
    /\ ~FracEq(DividedBy100(diff_percentage), threshold)

\* passed = bool((diff_percentage / 100) <= threshold)
Passed(diff_percentage, threshold) ==
    FracLeq(DividedBy100(diff_percentage), threshold)

\* diff.point(lambda x: x * 10), clipped to the channel maximum
Enhance(diff) ==
    [size |-> diff.size,
     data |-> [k \in 1..Len(diff.data) |->
                 [c \in 1..3 |-> Min(255, diff.data[k][c] * 10)]]]

\* the dict _compare_images returns, for two RGB images of the same size
CompareResult(baseline_img, current_img, viewport_name, threshold) ==
    LET diff == Difference(baseline_img, current_img)
        diff_percentage == DiffPercentage(diff)
    IN  [viewport |-> viewport_name,
         diff |-> Enhance(diff),
         diff_percentage |-> DividedBy100(diff_percentage),
         threshold |-> threshold,
         passed |-> Passed(diff_percentage, threshold)]

\* one call of _compare_images on a pair of images and a threshold
DInit ==
    \E b \in Images, c \in Images, t \in Thresholds :
        dstate = [mode |-> "open", baseline |-> b, current |-> c,
                  baseline_img |-> b, current_img |-> c, threshold |-> t,
                  resized |-> FALSE, result |-> <<>>]

\* mutant: the current image is not resized
CompareImagesNormalize_NoResize ==
    /\ dstate.mode = "open"
    /\ dstate' = [dstate EXCEPT !.mode = "same_size"]
    /\ UNCHANGED <<mvars, vstate, ustate>>

\* Image.open(...).convert('RGB') twice, then "Ensure same size": the
\* current image is resized to the baseline's size with Image.LANCZOS.  The
\* resampled pixels are any pixels: the filter itself is not modelled.
CompareImagesNormalize ==
    /\ dstate.mode = "open"
    /\ IF dstate.baseline_img.size # dstate.current_img.size
       THEN \E r \in {im \in Images : im.size = dstate.baseline_img.size} :
               dstate' = [dstate EXCEPT !.mode = "same_size",
                                        !.current_img = r,
                                        !.resized = TRUE]
       ELSE dstate' = [dstate EXCEPT !.mode = "same_size"]
    /\ UNCHANGED <<mvars, vstate, ustate>>

\* the rest of _compare_images: difference, percentage, verdict, the dict
CompareImagesReturn ==
    /\ dstate.mode = "same_size"
    /\ dstate' = [dstate EXCEPT
                     !.mode = "done",
                     !.result = CompareResult(dstate.baseline_img, dstate.current_img,
                                              "desktop", dstate.threshold)]
    /\ UNCHANGED <<mvars, vstate, ustate>>

MIdle ==
    /\ browsers = <<>>
    /\ output = FALSE
    /\ pc = "idle"
    /\ i = 1
    /\ results = <<>>
    /\ self_results = <<>>
    /\ tests = <<>>
    /\ responses = <<>>
    /\ open = {}
    /\ leaked = {}
    /\ warnings = <<>>
    /\ summary = <<>>
    /\ report = <<>>
    /\ exit_code = NoExit

InitDiff == MIdle /\ VIdle /\ DInit /\ UIdle

NextDiff ==
    \/ CompareImagesNormalize
    \/ CompareImagesReturn

SpecDiff == InitDiff /\ [][NextDiff]_vars

(***************************************************************************)
(* Claims about _compare_images (specification SpecDiff).                  *)
(***************************************************************************)
\* the pixels of two same-size images that differ in at least one channel
DifferingPixels(a, b) == {k \in 1..Len(a.data) : a.data[k] # b.data[k]}

\* C8 (as claimed): for equal-size RGB images the returned diff ratio is the
\* number of pixels that differ in at least one channel divided by the
\* total number of pixels.
C8_RatioCountsPixels ==
    (dstate.mode = "done" /\ ~dstate.resized) =>
        FracEq(dstate.result.diff_percentage,
               Frac(Cardinality(DifferingPixels(dstate.baseline, dstate.current)),
                    Len(dstate.baseline.data)))

\* C9: passed == (diffRatio <= T), diffRatio being the returned
\* diff_percentage field; at diffRatio == T the comparison passes.
C9_PassedIffRatioWithinThreshold ==
    dstate.mode = "done" =>
        (dstate.result.passed
            <=> FracLeq(dstate.result.diff_percentage, dstate.threshold))

C9_Witness ==
    /\ dstate.mode = "done"
    /\ dstate.result.diff_percentage.num > 0
    /\ FracEq(dstate.result.diff_percentage, dstate.threshold)
    /\ dstate.result.passed

\* C10: comparing an image with itself gives diff ratio 0 and passed, for
\* every non-negative threshold, threshold 0 included.
C10_SelfComparisonPasses ==
    (dstate.mode = "done" /\ dstate.baseline = dstate.current) =>
        /\ dstate.result.diff_percentage.num = 0
        /\ dstate.result.passed

C10_Witness ==
    /\ dstate.mode = "done"
    /\ dstate.baseline = dstate.current
    /\ dstate.baseline.data = <<White, Red>>
    /\ dstate.threshold = Frac(0, 1)
    /\ dstate.result.passed

(***************************************************************************)
(* visual_regression.py: VisualTester and main                             *)
(*                                                                         *)
(* vstate is a record: the arguments of the run (mode, has_baseline,       *)
(* viewports, threshold), the baseline directory (baseline_exists,         *)
(* baseline_dir), the position pc, the loop indexes                        *)
(* vi (capture_baseline) and ci (compare_screenshots), the browser         *)
(* resources (playwright, browser, contexts), the files written            *)
(* (current_dir, writes, captured_files), the results dict, and the exit   *)
(* status.  attempts, navigations and raised_at are history: what          *)
(* page.goto answered per viewport, how often it was called per viewport,  *)
(* and the call that raised.                                               *)
(***************************************************************************)
MaxViewports == 2

VIEWPORTS ==
    [desktop |-> [width |-> 1920, height |-> 1080],
     tablet |-> [width |-> 768, height |-> 1024],
     mobile |-> [width |-> 375, height |-> 667],
     laptop |-> [width |-> 1366, height |-> 768]]

ViewportNames == {"desktop", "mobile", "bogus"}

\* --viewports default
DefaultViewports == <<"desktop", "tablet", "mobile">>

ViewportLists == SeqsUpTo(ViewportNames, MaxViewports) \cup {DefaultViewports}

\* f"{viewport_name}_{viewport['width']}x{viewport['height']}.png"
Filename(viewport_name) ==
    <<viewport_name, VIEWPORTS[viewport_name].width, VIEWPORTS[viewport_name].height>>

FileNames == {Filename(n) : n \in DOMAIN VIEWPORTS}

OnePixel(colour) == [size |-> <<1, 1>>, data |-> <<colour>>]

\* what a screenshot may hold, and what the baseline files hold
ShotImages == {OnePixel(Black), OnePixel(Red)}
BaselineImage == OnePixel(Black)

VisualThresholds == {Frac(1, 20), Frac(1, 2)}

NoFiles == [f \in FileNames |-> <<>>]

NotTried == [kind |-> "not_tried", status |-> 0]

EmptyResults(threshold) ==
    [total |-> 0, passed |-> 0, failed |-> 0, threshold |-> threshold,
     comparisons |-> <<>>]

VStart(mode, has_baseline, viewports, threshold, baseline_exists, baseline_dir) ==
    [mode |-> mode, has_baseline |-> has_baseline, viewports |-> viewports,
     threshold |-> threshold, baseline_exists |-> baseline_exists,
     baseline_dir |-> baseline_dir,
     pc |-> "main", vi |-> 1, ci |-> 1,
     playwright |-> FALSE, browser |-> FALSE, contexts |-> {},
     browser_users |-> {},
     captured_files |-> <<>>, current_dir |-> NoFiles,
     writes |-> [f \in FileNames |-> 0],
     attempts |-> [k \in 1..Len(viewports) |-> NotTried],
     navigations |-> [k \in 1..Len(viewports) |-> 0],
     warnings |-> <<>>, results |-> EmptyResults(threshold),
     report_saved |-> FALSE, raised_at |-> "none", exit_code |-> NoExit]

\* the baseline directories that exist: some of the files of desktop and
\* mobile (a directory that does not exist has no file: Path.exists is False)
BaselineDirs ==
    {[f \in FileNames |-> IF f \in present THEN <<BaselineImage>> ELSE <<>>] :
        present \in SUBSET {Filename("desktop"), Filename("mobile")}}

VInit ==
    \E viewports \in ViewportLists :
        \/ vstate = VStart("baseline", FALSE, viewports, Frac(1, 20), FALSE, NoFiles)
        \/ vstate = VStart("compare", FALSE, viewports, Frac(1, 20), FALSE, NoFiles)
        \/ \E threshold \in VisualThresholds :
              \/ vstate = VStart("compare", TRUE, viewports, threshold, FALSE, NoFiles)
              \/ \E baseline_dir \in BaselineDirs :
                    vstate = VStart("compare", TRUE, viewports, threshold, TRUE,
                                    baseline_dir)

\* main: "Validate compare mode requirements" (parser.error exits with
\* status 2), then the call of capture_baseline, directly or through
\* compare_screenshots
VisualMainStart ==
    /\ vstate.pc = "main"
    /\ IF vstate.mode = "compare" /\ ~vstate.has_baseline
       THEN vstate' = [vstate EXCEPT !.pc = "done", !.exit_code = <<2>>]
       ELSE vstate' = [vstate EXCEPT !.pc = "capture_start"]
    /\ UNCHANGED <<mvars, dstate, ustate>>

\* an exception inside "with sync_playwright() as p": the with statement
\* stops Playwright, nothing else is closed, the exception goes up
Raise(vs, call) ==
    [vs EXCEPT !.pc = "raised", !.playwright = FALSE, !.raised_at = call]

\* capture_baseline: sync_playwright() and p.chromium.launch
CaptureStart ==
    /\ vstate.pc = "capture_start"
    /\ \E launch_raises \in BOOLEAN :
          vstate' = IF launch_raises
                    THEN Raise(vstate, "launch")
                    ELSE [vstate EXCEPT !.pc = "capture_loop", !.vi = 1,
                                        !.playwright = TRUE, !.browser = TRUE]
    /\ UNCHANGED <<mvars, dstate, ustate>>

\* capture_baseline: the loop head.  Past the last viewport: browser.close(),
\* the with statement ends, return.  An unknown viewport is skipped.  A
\* known one gets browser.new_context and context.new_page, on the one
\* browser launched before the loop (browser_users: the viewports, by
\* position, that got a context of it).
CaptureNext ==
    /\ vstate.pc = "capture_loop"
    /\ IF vstate.vi > Len(vstate.viewports)
       THEN \E close_raises \in BOOLEAN :
               vstate' = IF close_raises
                         THEN Raise(vstate, "browser_close")
                         ELSE [vstate EXCEPT
                                  !.browser = FALSE, !.playwright = FALSE,
                                  !.pc = IF vstate.mode = "compare"
                                         THEN "compare_loop" ELSE "main_exit"]
       ELSE IF vstate.viewports[vstate.vi] \notin DOMAIN VIEWPORTS
            THEN vstate' = [vstate EXCEPT
                               !.warnings = Append(@, vstate.viewports[vstate.vi]),
                               !.vi = @ + 1]
            ELSE \E outcome \in {"ok", "new_context_raises", "new_page_raises"} :
                    vstate' =
                       CASE outcome = "ok" ->
                               [vstate EXCEPT !.contexts = @ \cup {vstate.vi},
                                              !.browser_users = @ \cup {vstate.vi},
                                              !.pc = "goto"]
                         [] outcome = "new_context_raises" ->
                               Raise(vstate, "new_context")
                         [] outcome = "new_page_raises" ->
                               Raise([vstate EXCEPT
                                         !.contexts = @ \cup {vstate.vi},
                                         !.browser_users = @ \cup {vstate.vi}],
                                     "new_page")
    /\ UNCHANGED <<mvars, dstate, ustate>>

\* capture_baseline: page.goto(self.url) and page.wait_for_load_state; the
\* response of page.goto is not looked at
CaptureGoto ==
    /\ vstate.pc = "goto"
    /\ \/ vstate' = Raise([vstate EXCEPT !.attempts[vstate.vi] = GotoRaised,
                                          !.navigations[vstate.vi] = @ + 1], "goto")
       \/ \E status \in HttpStatuses, wait_raises \in BOOLEAN :
             LET seen == [vstate EXCEPT !.attempts[vstate.vi] = Response(status),
                                        !.navigations[vstate.vi] = @ + 1]
             IN  vstate' = IF wait_raises
                           THEN Raise(seen, "wait_for_load_state")
                           ELSE [seen EXCEPT !.pc = "screenshot"]
    /\ UNCHANGED <<mvars, dstate, ustate>>

\* capture_baseline: page.screenshot to the file, captured_files.append,
\* context.close(), and back to the loop head
CaptureScreenshot ==
    /\ vstate.pc = "screenshot"
    /\ LET f == Filename(vstate.viewports[vstate.vi])
       IN  \/ vstate' = Raise(vstate, "screenshot")
           \/ \E shot \in ShotImages, close_raises \in BOOLEAN :
                 LET saved == [vstate EXCEPT
                                  !.current_dir[f] = <<shot>>,
                                  !.writes[f] = @ + 1,
                                  !.captured_files = Append(@, f)]
                 IN  vstate' = IF close_raises
                               THEN Raise(saved, "context_close")
                               ELSE [saved EXCEPT !.contexts = @ \ {vstate.vi},
                                                  !.vi = @ + 1,
                                                  !.pc = "capture_loop"]
    /\ UNCHANGED <<mvars, dstate, ustate>>

\* compare_screenshots: what one comparison adds to the results dict
AddComparison(rs, diff_result) ==
    [rs EXCEPT !.comparisons = Append(@, diff_result),
               !.total = @ + 1,
               !.passed = IF diff_result.passed THEN @ + 1 ELSE @,
               !.failed = IF diff_result.passed THEN @ ELSE @ + 1]

\* compare_screenshots: "Compare each viewport", then _save_comparison_report
\* (which writes comparison_report.json and the HTML report, and may raise)
CompareNext ==
    /\ vstate.pc = "compare_loop"
    /\ IF vstate.ci > Len(vstate.viewports)
       THEN \E save_raises \in BOOLEAN :
               vstate' = IF save_raises
                         THEN [vstate EXCEPT !.pc = "raised", !.raised_at = "save_report"]
                         ELSE [vstate EXCEPT !.report_saved = TRUE,
                                             !.pc = "main_exit"]
       ELSE LET viewport_name == vstate.viewports[vstate.ci]
            IN  IF viewport_name \notin DOMAIN VIEWPORTS
                THEN vstate' = [vstate EXCEPT !.ci = @ + 1]
                ELSE IF vstate.baseline_dir[Filename(viewport_name)] = <<>>
                     THEN vstate' = [vstate EXCEPT !.ci = @ + 1]
                     ELSE vstate' =
                            [vstate EXCEPT
                               !.ci = @ + 1,
                               !.results = AddComparison(@,
                                  CompareResult(
                                     vstate.baseline_dir[Filename(viewport_name)][1],
                                     vstate.current_dir[Filename(viewport_name)][1],
                                     viewport_name, vstate.threshold))]
    /\ UNCHANGED <<mvars, dstate, ustate>>

\* main: sys.exit(0 if results['failed'] == 0 else 1) in compare mode
CompareExitCode(rs) == IF rs.failed = 0 THEN 0 ELSE 1

\* main: the end of the try block; baseline mode ends with status 0
VisualMainExit ==
    /\ vstate.pc = "main_exit"
    /\ vstate' = [vstate EXCEPT
                     !.pc = "done",
                     !.exit_code = IF vstate.mode = "compare"
                                   THEN <<CompareExitCode(vstate.results)>>
                                   ELSE <<0>>]
    /\ UNCHANGED <<mvars, dstate, ustate>>

\* main: except Exception, sys.exit(1)
VisualMainExcept ==
    /\ vstate.pc = "raised"
    /\ vstate' = [vstate EXCEPT !.pc = "done", !.exit_code = <<1>>]
    /\ UNCHANGED <<mvars, dstate, ustate>>

InitVisual == MIdle /\ VInit /\ DIdle /\ UIdle

NextVisual ==
    \/ VisualMainStart
    \/ CaptureStart
    \/ CaptureNext
    \/ CaptureGoto
    \/ CaptureScreenshot
    \/ CompareNext
    \/ VisualMainExit
    \/ VisualMainExcept

SpecVisual == InitVisual /\ [][NextVisual]_vars

(***************************************************************************)
(* Claims about baseline and compare mode (specification SpecVisual).      *)
(***************************************************************************)
\* capture_baseline has returned, or has raised out of page.goto or
\* page.screenshot
CaptureOver ==
    \/ vstate.pc \in {"compare_loop", "main_exit"}
    \/ vstate.pc = "raised" /\ vstate.raised_at \in {"goto", "screenshot"}

\* C3 (as claimed): on every exit path of the capture of a viewport
\* (success, navigation exception, screenshot exception) the browser context
\* opened for it is closed, and the browser is closed, by the time
\* capture_baseline returns or raises.
C3_SessionAlwaysReleased ==
    CaptureOver => (vstate.contexts = {} /\ ~vstate.browser)

\* the capture of viewport k failed: navigation raised or HTTP status >= 400
CaptureFailed(k) ==
    \/ vstate.attempts[k] = GotoRaised
    \/ vstate.attempts[k].kind = "response" /\ vstate.attempts[k].status >= 400

Compared(viewport_name) ==
    \E j \in 1..Len(vstate.results.comparisons) :
        vstate.results.comparisons[j].viewport = viewport_name

\* C4 (as claimed): a capture failure for one viewport (navigation failure
\* or HTTP status >= 400) leaves that viewport's artifact absent and does
\* not stop the others: when nothing but page.goto raised, every known
\* viewport of the list has been tried when the run ends, every one that
\* did not fail has its file and, in compare mode with a baseline for it,
\* its comparison.
C4_CaptureFailureIsLocal ==
    (vstate.pc = "done" /\ vstate.exit_code # <<2>>
        /\ vstate.raised_at \in {"none", "goto"}) =>
        \A k \in 1..Len(vstate.viewports) :
            LET viewport_name == vstate.viewports[k]
            IN  viewport_name \in DOMAIN VIEWPORTS =>
                   /\ vstate.attempts[k] # NotTried
                   /\ CaptureFailed(k) =>
                         vstate.current_dir[Filename(viewport_name)] = <<>>
                   /\ ~CaptureFailed(k) =>
                         /\ vstate.current_dir[Filename(viewport_name)] # <<>>
                         /\ (vstate.mode = "compare"
                               /\ vstate.baseline_dir[Filename(viewport_name)] # <<>>)
                               => Compared(viewport_name)

(***************************************************************************)
(* Either program is run: the matrix run of cross_browser.py or the        *)
(* baseline / compare run of visual_regression.py.                         *)
(***************************************************************************)
InitTools == Init \/ InitVisual

NextTools == Next \/ NextVisual

SpecTools == InitTools /\ [][NextTools]_vars

(***************************************************************************)
(* Claims about target enumeration, ordering and the run summary.          *)
(***************************************************************************)
\* C11 (as claimed): two requested names that resolve to the same engine
\* yield one target: test_browsers runs that engine once and returns one
\* result for it.
C11_AliasesDeduplicated ==
    Finished =>
        \A j, k \in 1..Len(self_results) :
            self_results[j].engine = self_results[k].engine => j = k

UnknownBrowserNext ==
    /\ pc = "loop"
    /\ i <= Len(browsers)
    /\ ResolveEngine(browsers[i]) \notin Range(SUPPORTED_BROWSERS)

UnknownViewportNext(at, index) ==
    /\ vstate.pc = at
    /\ index <= Len(vstate.viewports)
    /\ vstate.viewports[index] \notin DOMAIN VIEWPORTS

UnknownNames(names, known) == SelectSeq(names, LAMBDA n : n \notin known)

KnownViewports(names) == SelectSeq(names, LAMBDA n : n \in DOMAIN VIEWPORTS)

\* the engines and viewports the programs know
KnownBrowserNames == {n \in BrowserNames \cup Range(AllBrowsers) :
                         ResolveEngine(n) \in Range(SUPPORTED_BROWSERS)}

\* capture_baseline returned (it did not raise)
CaptureReturned ==
    /\ vstate.pc \in {"compare_loop", "main_exit", "done"}
    /\ vstate.raised_at \in {"none", "save_report"}
    /\ vstate.exit_code # <<2>>

\* C12: an unknown viewport or browser name never raises and never stops
\* the run: the step that meets it only records one warning (in the loop
\* that captures or tests) and goes on with the next name, so that at the
\* end the warnings are exactly the unknown names, one each, and every known
\* name of the list has been processed.
C12_UnknownNameSkippedWithOneWarning ==
    /\ [][/\ UnknownBrowserNext =>
                /\ pc' = "loop"
                /\ i' = i + 1
                /\ warnings' = Append(warnings, browsers[i])
                /\ UNCHANGED <<results, exit_code>>
          /\ UnknownViewportNext("capture_loop", vstate.vi) =>
                vstate' = [vstate EXCEPT
                              !.vi = @ + 1,
                              !.warnings = Append(@, vstate.viewports[vstate.vi])]
          /\ UnknownViewportNext("compare_loop", vstate.ci) =>
                vstate' = [vstate EXCEPT !.ci = @ + 1]]_vars
    /\ [](Finished =>
             /\ warnings = UnknownNames(browsers, KnownBrowserNames)
             /\ [k \in 1..Len(self_results) |-> self_results[k].browser]
                   = SupportedNames(browsers))
    /\ [](CaptureReturned =>
             /\ vstate.warnings = UnknownNames(vstate.viewports, DOMAIN VIEWPORTS)
             /\ vstate.captured_files
                   = [k \in 1..Len(KnownViewports(vstate.viewports)) |->
                         Filename(KnownViewports(vstate.viewports)[k])])

C12_Witness ==
    /\ vstate.pc = "done"
    /\ vstate.viewports = <<"desktop", "bogus">>
    /\ vstate.warnings = <<"bogus">>
    /\ vstate.captured_files = <<Filename("desktop")>>
    /\ vstate.exit_code = <<0>>

\* the viewports compare_screenshots compares: known, with a baseline file
ComparableViewports(vs) ==
    SelectSeq(vs.viewports,
              LAMBDA n : n \in DOMAIN VIEWPORTS /\ vs.baseline_dir[Filename(n)] # <<>>)

\* C13: the result list keeps the order of the requested targets, whatever
\* the outcome of each: the results of test_browsers are those of the
\* supported requested names in request order, and the comparisons of
\* compare_screenshots those of the compared viewports in request order.
C13_ResultsKeepRequestOrder ==
    /\ [k \in 1..Len(results) |-> results[k].browser]
          = SubSeq(SupportedNames(browsers), 1, Len(results))
    /\ vstate.pc # "idle" =>
          [k \in 1..Len(vstate.results.comparisons) |->
              vstate.results.comparisons[k].viewport]
          = SubSeq(ComparableViewports(vstate), 1, Len(vstate.results.comparisons))

C13_Witness ==
    /\ pc = "done"
    /\ Len(self_results) = 2
    /\ self_results[1].browser = "FF"
    /\ self_results[1].status = "PASS"
    /\ self_results[2].browser = "chrome"
    /\ self_results[2].status = "ERROR"

\* C14 (as claimed): when no requested name resolves to a supported target
\* the process exits with a non-zero status.
C14_NoTargetsIsFatal ==
    (pc = "done" /\ SupportedNames(browsers) = <<>>) => exit_code # <<0>>

\* C15 (as claimed): in compare mode, when the baseline directory is not
\* supplied or does not exist, the process exits with a non-zero status and
\* reports no comparison as passed (stated for the runs that request at
\* least one known viewport).
C15_MissingBaselineIsFatal ==
    (/\ vstate.pc = "done"
     /\ vstate.mode = "compare"
     /\ KnownViewports(vstate.viewports) # <<>>
     /\ ~vstate.has_baseline \/ ~vstate.baseline_exists) =>
        /\ vstate.exit_code # <<0>>
        /\ vstate.results.passed = 0

\* the calls of capture_baseline made for one viewport
PerTargetCalls ==
    {"new_context", "new_page", "goto", "wait_for_load_state", "screenshot",
     "context_close"}

\* C16 (as claimed, compare mode): whatever failures occurred while
\* processing individual targets, a run of compare mode has written
\* comparison_report.json when it ends.
C16_SummaryAlwaysProduced ==
    (/\ vstate.pc = "done"
     /\ vstate.mode = "compare"
     /\ vstate.has_baseline
     /\ vstate.raised_at \in PerTargetCalls \cup {"none"}) =>
        vstate.report_saved

MAX_NAVIGATION_RETRIES == 3

\* C17 (as claimed): the capture of a target gives up on a navigation
\* exception only after navigation was attempted 3 times for that target.
C17_NavigationRetried ==
    (vstate.pc = "raised" /\ vstate.raised_at = "goto") =>
        vstate.navigations[vstate.vi] = MAX_NAVIGATION_RETRIES

\* C18 (as claimed): in a matrix run, while one target's session is open no
\* browser, context or page of another target is still open; in a capture
\* run, no browser serves two targets.
C18_OneSessionAtATime ==
    /\ open # {} => leaked \cap {"browser", "context", "page"} = {}
    /\ vstate.pc # "idle" => Cardinality(vstate.browser_users) <= 1

\* C19 (as claimed): within one call of capture_baseline no screenshot file
\* path is written more than once.
C19_ScreenshotsWrittenOnce ==
    vstate.pc # "idle" => \A f \in FileNames : vstate.writes[f] <= 1

\* C20 (as claimed, matrix report): the total of the summary equals the
\* number of results and the sum of the per-status counts shown with it.
C20_CountsPartitionResults ==
    (pc = "done" /\ report # <<>>) =>
        /\ report[1].total = Len(self_results)
        /\ report[1].total = report[1].passed + report[1].failed + report[1].errors

(***************************************************************************)
(* Claims about the steps of _test_single_browser (specification Spec).    *)
(***************************************************************************)
\* the step lists built so far: the local list tests and those of the results
StepLists == {tests} \cup {results[k].tests : k \in 1..Len(results)}

\* every step result with the given name
StepsNamed(name) ==
    UNION {{ts[k] : k \in {j \in 1..Len(ts) : ts[j].test = name}} : ts \in StepLists}

\* the load step t classifies what page.goto answered (r) as claimed
LoadStepAsClaimed(t, r) ==
    /\ t.test = "Load page"
    /\ r = GotoRaised => t.status = "FAIL"
    /\ (r.kind = "response" /\ r.status >= 400) => t.status = "FAIL"
    /\ (r.kind = "response" /\ r.status < 400) =>
          /\ t.message.code > 5 * 10 => t.status = "WARN"
          /\ t.message.code <= 5 * 10 => t.status = "PASS"

\* C21: the load step never raises and classifies its outcome: FAIL when
\* the response status is >= 400 (whatever the elapsed time) or when
\* navigation raises, otherwise WARN when the elapsed time exceeds 5
\* seconds, otherwise PASS.
C21_LoadStepClassification ==
    /\ pc \in {"interact", "console", "exit"} =>
          /\ Len(tests) >= 1
          /\ LoadStepAsClaimed(tests[1], Last(responses))
    /\ \A k \in 1..Len(results) :
          results[k].tests # <<>> => LoadStepAsClaimed(results[k].tests[1], responses[k])

C21_Witness ==
    /\ Len(results) = 2
    /\ responses[1] = Response(400)
    /\ results[1].tests = <<StepResult("Load page", "FAIL", Msg("HTTP", 400))>>
    /\ responses[2] = Response(200)
    /\ results[2].tests[1].status = "WARN"

\* C22: the console-error step never yields FAIL and never raises: its
\* result is WARN when the check could not be performed and PASS
\* otherwise, so a target whose status is FAIL has a failed load or
\* interaction step.
C22_ConsoleStepNeverFails ==
    /\ \A t \in StepsNamed("Console errors") :
          /\ t.status \in {"PASS", "WARN"}
          /\ t.status = "WARN" <=> t.message.kind = "Could not check console"
    /\ (pc = "exit" /\ Len(tests) > 1) => Last(tests).test = "Console errors"
    /\ \A k \in 1..Len(results) :
          results[k].status = "FAIL" =>
              \E j \in 1..Len(results[k].tests) :
                  /\ results[k].tests[j].test # "Console errors"
                  /\ results[k].tests[j].status = "FAIL"

C22_Witness ==
    /\ Len(results) = 1
    /\ Len(results[1].tests) = 3
    /\ results[1].tests[2].status = "PASS"
    /\ results[1].tests[3] =
          StepResult("Console errors", "WARN", Msg("Could not check console", 0))
    /\ results[1].status = "WARN"

\* C23 (as claimed): the status of the interaction step is always WARN or
\* PASS.
C23_InteractionWarnOrPass ==
    \A t \in StepsNamed("Basic interactions") : t.status \in {"WARN", "PASS"}

\* C23 (amended): the interaction step yields FAIL when counting the
\* elements raises, otherwise WARN when the counts of buttons, links and
\* inputs sum to zero and PASS, with the count, when they do not.
C23_InteractionClassified ==
    \A t \in StepsNamed("Basic interactions") :
        /\ t.status \in {"FAIL", "WARN", "PASS"}
        /\ t.status = "FAIL" <=> t.message.kind = "exception"
        /\ t.status = "WARN" <=> t.message.kind = "No interactive elements found"
        /\ t.status = "PASS" <=> (t.message.kind = "Found" /\ t.message.code > 0)

C23_Witness ==
    /\ Len(results) = 2
    /\ Len(results[1].tests) = 3
    /\ results[1].tests[2].status = "FAIL"
    /\ Len(results[2].tests) = 3
    /\ results[2].tests[2].status = "WARN"

\* the two step lists of the per-target state machine
LoadOnly(ts) == Len(ts) = 1 /\ ts[1].test = "Load page"

AllThreeSteps(ts) ==
    /\ Len(ts) = 3
    /\ ts[1].test = "Load page"
    /\ ts[2].test = "Basic interactions"
    /\ ts[3].test = "Console errors"

\* C30: the step list of every result of _test_single_browser is exactly
\* [Load page] or exactly [Load page, Basic interactions, Console errors];
\* the interaction step runs after the load step, and the console step
\* after the interaction step, also when the interaction step failed.
C30_StepListFollowsStateMachine ==
    /\ \A k \in 1..Len(results) :
          results[k].status # "ERROR" =>
              LoadOnly(results[k].tests) \/ AllThreeSteps(results[k].tests)
    /\ pc = "exit" => LoadOnly(tests) \/ AllThreeSteps(tests)
    /\ pc = "interact" => LoadOnly(tests)
    /\ pc = "console" =>
          Len(tests) = 2 /\ tests[1].test = "Load page"
                         /\ tests[2].test = "Basic interactions"

C30_Witness ==
    /\ Len(results) = 1
    /\ AllThreeSteps(results[1].tests)
    /\ results[1].tests[2].status = "FAIL"
    /\ results[1].tests[3].status = "PASS"

\* C26 (as claimed): once the with statement on a BrowserManager has
\* finished, whether __enter__ failed or the body ended, every resource
\* that was started (Playwright driver, browser, context) has been stopped
\* or closed.
C26_WithNeverLeaks ==
    pc \notin {"enter", "load", "interact", "console", "exit"} => leaked = {}

(***************************************************************************)
(* A further claim about _compare_images (specification SpecDiff).         *)
(***************************************************************************)
\* C24: a dimension mismatch is never surfaced: the current image is
\* brought to the baseline's width and height before differencing, so the
\* difference has the baseline's dimensions and the result carries a diff
\* ratio in [0,1].
C24_MismatchResizedToBaseline ==
    /\ dstate.mode \in {"same_size", "done"} =>
          /\ dstate.baseline_img.size = dstate.baseline.size
          /\ dstate.current_img.size = dstate.baseline.size
          /\ Len(dstate.current_img.data) = Len(dstate.baseline.data)
          /\ dstate.resized <=> dstate.current.size # dstate.baseline.size
    /\ dstate.mode = "done" =>
          /\ dstate.result.diff.size = dstate.baseline.size
          /\ dstate.result.diff_percentage.den > 0
          /\ dstate.result.diff_percentage.num >= 0
          /\ dstate.result.diff_percentage.num <= dstate.result.diff_percentage.den

C24_Witness ==
    /\ dstate.mode = "done"
    /\ dstate.baseline.size = <<1, 2>>
    /\ dstate.current.size = <<1, 1>>
    /\ dstate.resized
    /\ dstate.result.diff_percentage.num > 0

(***************************************************************************)
(* analyze_task.py: detect_assignee_type                                   *)
(*                                                                         *)
(* A text is a sequence of words and a keyword a sequence of lower-case    *)
(* words; `keyword in text` is containment of the keyword's words, in      *)
(* order and adjacent.  No word of the model's texts contains a keyword    *)
(* as a proper part, so this is Python's substring test on these texts.    *)
(***************************************************************************)
MaxWords == 2

TitleWords == {"ApPrOvE", "Security", "IMPLEMENT", "Write", "test", "task"}

Titles == SeqsUpTo(TitleWords, MaxWords)

Descriptions == {<<"task">>, <<"approve">>, <<"build">>, <<"audit">>}

LabelLists == SUBSET {"security", "Security", "planning", "config"}

\* str.lower() on the words of the model's texts
LowerWord(w) ==
    CASE w = "ApPrOvE" -> "approve"
      [] w = "Security" -> "security"
      [] w = "IMPLEMENT" -> "implement"
      [] w = "Write" -> "write"
      [] OTHER -> w

\* title.lower(), description.lower()
LowerText(text) == [k \in 1..Len(text) |-> LowerWord(text[k])]

human_keywords ==
    {<<"approve">>, <<"decision">>, <<"review", "stakeholder">>, <<"negotiate">>,
     <<"business", "decision">>, <<"prioritize">>, <<"strategic">>, <<"legal">>,
     <<"compliance">>, <<"privacy", "policy">>, <<"user", "research">>,
     <<"interview">>, <<"stakeholder">>, <<"sign", "off">>, <<"final", "approval">>}

review_keywords ==
    {<<"security">>, <<"audit">>, <<"penetration", "test">>, <<"vulnerability">>,
     <<"authentication">>, <<"payment">>, <<"financial">>, <<"billing">>,
     <<"critical">>, <<"production", "deploy">>, <<"migration">>}

agent_keywords ==
    {<<"implement">>, <<"write", "test">>, <<"create", "unit", "test">>,
     <<"refactor">>, <<"update">>, <<"build">>, <<"develop">>, <<"code">>,
     <<"script">>, <<"automate">>, <<"generate">>, <<"format">>, <<"lint">>,
     <<"type", "check">>, <<"documentation", "code">>}

\* keyword in text
KeywordIn(keyword, text) ==
    \E start \in 1..Len(text) :
        /\ start + Len(keyword) - 1 <= Len(text)
        /\ SubSeq(text, start, start + Len(keyword) - 1) = keyword

\* any(keyword in title_lower or keyword in desc_lower for keyword in keywords)
AnyKeyword(keywords, title_lower, desc_lower) ==
    \E keyword \in keywords :
        KeywordIn(keyword, title_lower) \/ KeywordIn(keyword, desc_lower)

\* the tuple (assignee_type, requires_human_review)
Assignee(type, review) == [assignee_type |-> type, review |-> review]

\* mutant: the agent keywords are looked at before the review keywords
detect_assignee_type_AgentFirst(title, description, labels) ==
    LET title_lower == LowerText(title)
        desc_lower == LowerText(description)
    IN  IF AnyKeyword(human_keywords, title_lower, desc_lower)
        THEN Assignee("HUMAN", FALSE)
        ELSE IF AnyKeyword(agent_keywords, title_lower, desc_lower)
        THEN Assignee("AGENT", FALSE)
        ELSE IF AnyKeyword(review_keywords, title_lower, desc_lower)
        THEN Assignee("HUMAN", FALSE)
        ELSE IF "security" \in labels \/ "audit" \in labels \/ "review" \in labels
        THEN Assignee("AGENT", TRUE)
        ELSE IF "planning" \in labels \/ "research" \in labels \/ "design" \in labels
        THEN Assignee("EITHER", FALSE)
        ELSE Assignee("AGENT", FALSE)

detect_assignee_type(title, description, labels) ==
    LET title_lower == LowerText(title)
        desc_lower == LowerText(description)
    IN  IF AnyKeyword(human_keywords, title_lower, desc_lower)
        THEN Assignee("HUMAN", FALSE)
        ELSE IF AnyKeyword(review_keywords, title_lower, desc_lower)
        THEN IF AnyKeyword(agent_keywords, title_lower, desc_lower)
             THEN Assignee("AGENT", TRUE)
             ELSE Assignee("HUMAN", FALSE)
        ELSE IF AnyKeyword(agent_keywords, title_lower, desc_lower)
        THEN Assignee("AGENT", FALSE)
        ELSE IF "security" \in labels \/ "audit" \in labels \/ "review" \in labels
        THEN Assignee("AGENT", TRUE)
        ELSE IF "planning" \in labels \/ "research" \in labels \/ "design" \in labels
        THEN Assignee("EITHER", FALSE)
        ELSE Assignee("AGENT", FALSE)

\* one call of detect_assignee_type
DetectInit ==
    \E title \in Titles, description \in Descriptions, labels \in LabelLists :
        ustate = [mode |-> "detect", pc |-> "call", title |-> title,
                  description |-> description, labels |-> labels,
                  result |-> <<>>]

DetectCall ==
    /\ ustate.mode = "detect"
    /\ ustate.pc = "call"
    /\ ustate' = [ustate EXCEPT
                     !.pc = "done",
                     !.result = <<detect_assignee_type(ustate.title,
                                                       ustate.description,
                                                       ustate.labels)>>]
    /\ UNCHANGED <<mvars, vstate, dstate>>

(***************************************************************************)
(* browser_utils.py: navigate_with_retry                                   *)
(***************************************************************************)
MaxRetries == 3

\* one call of navigate_with_retry(page, url, max_retries); attempt is the
\* loop variable, gotos counts the calls of page.goto, outcomes is their
\* history, returned is <<value>> once the function has returned
NavigateInit ==
    \E max_retries \in 0..MaxRetries :
        ustate = [mode |-> "navigate", pc |-> "loop", max_retries |-> max_retries,
                  attempt |-> 0, gotos |-> 0, outcomes |-> <<>>,
                  returned |-> <<>>]

\* mutant: the last failed attempt is not recognised (off by one), so one
\* more attempt is made
NavigateAttempt_OneMore ==
    /\ ustate.mode = "navigate"
    /\ ustate.pc = "loop"
    /\ IF ustate.attempt > ustate.max_retries
       THEN ustate' = [ustate EXCEPT !.pc = "done", !.returned = <<FALSE>>]
       ELSE \E goto_raises \in BOOLEAN :
               LET called == [ustate EXCEPT
                                 !.gotos = @ + 1,
                                 !.outcomes = Append(@, IF goto_raises
                                                        THEN "raised" ELSE "ok")]
               IN  ustate' =
                      IF ~goto_raises
                      THEN [called EXCEPT !.pc = "done", !.returned = <<TRUE>>]
                      ELSE [called EXCEPT !.attempt = @ + 1]
    /\ UNCHANGED <<mvars, vstate, dstate>>

\* one pass of `for attempt in range(max_retries)`: page.goto, return True,
\* or the except branch; past the range, the final return False
NavigateAttempt ==
    /\ ustate.mode = "navigate"
    /\ ustate.pc = "loop"
    /\ IF ustate.attempt >= ustate.max_retries
       THEN ustate' = [ustate EXCEPT !.pc = "done", !.returned = <<FALSE>>]
       ELSE \E goto_raises \in BOOLEAN :
               LET called == [ustate EXCEPT
                                 !.gotos = @ + 1,
                                 !.outcomes = Append(@, IF goto_raises
                                                        THEN "raised" ELSE "ok")]
               IN  ustate' =
                      IF ~goto_raises
                      THEN [called EXCEPT !.pc = "done", !.returned = <<TRUE>>]
                      ELSE IF ustate.attempt = ustate.max_retries - 1
                           THEN [called EXCEPT !.pc = "done",
                                               !.returned = <<FALSE>>]
                           ELSE [called EXCEPT !.attempt = @ + 1]
    /\ UNCHANGED <<mvars, vstate, dstate>>

(***************************************************************************)
(* browser_utils.py: BrowserManager.__exit__, step by step                 *)
(*                                                                         *)
(* fields are the attributes of the manager that are not None (how far     *)
(* __enter__ got), pending the exception in flight when __exit__ is        *)
(* called ("none", "body": raised in the with body, "enter": raised by     *)
(* __enter__, when a caller runs __exit__ in a finally), calls the         *)
(* cleanup calls made so far, returned the values __exit__ returned.       *)
(***************************************************************************)
AllResources == {"playwright", "browser", "context", "page"}

ManagerFields == {StartedBefore(point) : point \in EnterFailures} \cup {AllResources}

ManagerInit ==
    \E fields \in ManagerFields, body_raised \in BOOLEAN :
        ustate = [mode |-> "manager", pc |-> "exit_context", fields |-> fields,
                  with_exc |-> IF fields # AllResources THEN "enter"
                               ELSE IF body_raised THEN "body" ELSE "none",
                  pending |-> IF fields # AllResources THEN "enter"
                              ELSE IF body_raised THEN "body" ELSE "none",
                  calls |-> <<>>, raised |-> {}, returned |-> <<>>]

\* mutant: a cleanup step without try/except: its exception leaves __exit__
ExitStep_NoTry(attribute, call, at, then) ==
    /\ ustate.mode = "manager"
    /\ ustate.pc = at
    /\ IF attribute \in ustate.fields
       THEN \E close_raises \in BOOLEAN :
               ustate' = IF close_raises
                         THEN [ustate EXCEPT !.calls = Append(@, call),
                                             !.raised = @ \cup {call},
                                             !.pending = "cleanup",
                                             !.returned = Append(@, "raised"),
                                             !.pc = "returned"]
                         ELSE [ustate EXCEPT !.calls = Append(@, call),
                                             !.pc = then]
       ELSE ustate' = [ustate EXCEPT !.pc = then]
    /\ UNCHANGED <<mvars, vstate, dstate>>

\* one cleanup step of __exit__: try: if self.<attribute>: <call>; except
\* Exception: pass
ExitStep(attribute, call, at, then) ==
    /\ ustate.mode = "manager"
    /\ ustate.pc = at
    /\ IF attribute \in ustate.fields
       THEN \E close_raises \in BOOLEAN :
               ustate' = [ustate EXCEPT
                             !.calls = Append(@, call),
                             !.raised = IF close_raises THEN @ \cup {call} ELSE @,
                             !.pc = then]
       ELSE ustate' = [ustate EXCEPT !.pc = then]
    /\ UNCHANGED <<mvars, vstate, dstate>>

ExitCloseContext == ExitStep("context", "context.close", "exit_context", "exit_browser")

ExitCloseBrowser == ExitStep("browser", "browser.close", "exit_browser", "exit_playwright")

ExitStopPlaywright ==
    ExitStep("playwright", "playwright.stop", "exit_playwright", "exit_return")

\* return False
ExitReturn ==
    /\ ustate.mode = "manager"
    /\ ustate.pc = "exit_return"
    /\ ustate' = [ustate EXCEPT !.returned = Append(@, "False"), !.pc = "returned"]
    /\ UNCHANGED <<mvars, vstate, dstate>>

\* __exit__ is called once more on the same manager (MultiBrowserManager's
\* __exit__ does so after the iterator's finally)
ExitAgain ==
    /\ ustate.mode = "manager"
    /\ ustate.pc = "returned"
    /\ Len(ustate.returned) < 2
    /\ ustate.pending # "cleanup"
    /\ ustate' = [ustate EXCEPT !.pc = "exit_context"]
    /\ UNCHANGED <<mvars, vstate, dstate>>

(***************************************************************************)
(* browser_utils.py: MultiBrowserManager in                                *)
(*     with MultiBrowserManager(browser_types) as browsers:                *)
(*         for browser_name, page in browsers: <body>                      *)
(*                                                                         *)
(* gen is the state of the generator __iter__ returned: "fresh", "running" *)
(* (between two passes of its loop), "suspended" (at the yield),           *)
(* "finished" (returned or raised) or "closed" (finalised while            *)
(* suspended).  res[k] are the open resources of the k-th manager, exits   *)
(* the number of __exit__ calls it got, launched the managers whose        *)
(* browser was launched.                                                   *)
(***************************************************************************)
MaxEngines == 2

EngineLists == SeqsUpTo({"chromium", "firefox"}, MaxEngines)

MultiInit ==
    \E browser_types \in EngineLists :
        ustate = [mode |-> "multi", pc |-> "next", browser_types |-> browser_types,
                  idx |-> 1, gen |-> "fresh", created |-> 0,
                  res |-> [k \in 1..Len(browser_types) |-> {}],
                  exits |-> [k \in 1..Len(browser_types) |-> 0],
                  launched |-> {}, exc |-> "none", broke |-> FALSE]

\* mutant: no finally in __iter__: the browser is left to the safety net
MultiCleanupPrevious_NoFinally ==
    /\ ustate.mode = "multi"
    /\ ustate.pc = "next"
    /\ ustate.gen = "suspended"
    /\ ustate' = [ustate EXCEPT !.idx = @ + 1, !.gen = "running"]
    /\ UNCHANGED <<mvars, vstate, dstate>>

\* the for loop asks for the next item while the generator is suspended at
\* the yield: the finally runs manager.__exit__ for the current browser
MultiCleanupPrevious ==
    /\ ustate.mode = "multi"
    /\ ustate.pc = "next"
    /\ ustate.gen = "suspended"
    /\ ustate' = [ustate EXCEPT !.res[ustate.idx] = {},
                                !.exits[ustate.idx] = @ + 1,
                                !.idx = @ + 1,
                                !.gen = "running"]
    /\ UNCHANGED <<mvars, vstate, dstate>>

\* __iter__: the next pass of `for browser_type in self.browser_types`:
\* past the last type the generator returns and the for loop ends; else a
\* BrowserManager is appended and entered, and either the item is yielded
\* or __enter__ raises, the finally runs manager.__exit__, and the
\* exception leaves the generator and the for loop
MultiLaunch ==
    /\ ustate.mode = "multi"
    /\ ustate.pc = "next"
    /\ ustate.gen \in {"fresh", "running"}
    /\ IF ustate.idx > Len(ustate.browser_types)
       THEN ustate' = [ustate EXCEPT !.gen = "finished", !.pc = "with_exit"]
       ELSE \/ ustate' = [ustate EXCEPT !.created = @ + 1,
                                        !.res[ustate.idx] = AllResources,
                                        !.launched = @ \cup {ustate.idx},
                                        !.gen = "suspended",
                                        !.pc = "body"]
            \/ \E point \in EnterFailures :
                  ustate' = [ustate EXCEPT
                                !.created = @ + 1,
                                !.launched = IF "browser" \in StartedBefore(point)
                                             THEN @ \cup {ustate.idx} ELSE @,
                                !.res[ustate.idx] = {},
                                !.exits[ustate.idx] = @ + 1,
                                !.gen = "finished",
                                !.exc = "enter",
                                !.pc = "with_exit"]
    /\ UNCHANGED <<mvars, vstate, dstate>>

\* the body of the consumer's for loop: it ends, breaks, or raises
MultiBody ==
    /\ ustate.mode = "multi"
    /\ ustate.pc = "body"
    /\ \E outcome \in {"continue", "break", "raise"} :
          ustate' = CASE outcome = "continue" -> [ustate EXCEPT !.pc = "next"]
                      [] outcome = "break" ->
                            [ustate EXCEPT !.pc = "with_exit", !.broke = TRUE]
                      [] outcome = "raise" ->
                            [ustate EXCEPT !.pc = "with_exit", !.exc = "body"]
    /\ UNCHANGED <<mvars, vstate, dstate>>

\* the generator left suspended by a break or an exception is finalised
\* (when the interpreter drops it, before or after the with block ends):
\* GeneratorExit at the yield, the finally runs manager.__exit__
MultiGenFinalize ==
    /\ ustate.mode = "multi"
    /\ ustate.pc \in {"with_exit", "done"}
    /\ ustate.gen = "suspended"
    /\ ustate' = [ustate EXCEPT !.res[ustate.idx] = {},
                                !.exits[ustate.idx] = @ + 1,
                                !.gen = "closed"]
    /\ UNCHANGED <<mvars, vstate, dstate>>

\* MultiBrowserManager.__exit__: manager.__exit__ for every manager of
\* self.managers, return False (the exception in flight goes on)
MultiWithExit ==
    /\ ustate.mode = "multi"
    /\ ustate.pc = "with_exit"
    /\ ustate' = [ustate EXCEPT
                     !.res = [k \in DOMAIN ustate.res |->
                                 IF k <= ustate.created THEN {} ELSE ustate.res[k]],
                     !.exits = [k \in DOMAIN ustate.exits |->
                                   IF k <= ustate.created
                                   THEN ustate.exits[k] + 1 ELSE ustate.exits[k]],
                     !.pc = "done"]
    /\ UNCHANGED <<mvars, vstate, dstate>>

(***************************************************************************)
(* The utilities, one call each (specification SpecUtils).                 *)
(***************************************************************************)
InitUtils ==
    /\ MIdle /\ VIdle /\ DIdle
    /\ DetectInit \/ NavigateInit \/ ManagerInit \/ MultiInit

NextUtils ==
    \/ DetectCall
    \/ NavigateAttempt
    \/ ExitCloseContext
    \/ ExitCloseBrowser
    \/ ExitStopPlaywright
    \/ ExitReturn
    \/ ExitAgain
    \/ MultiCleanupPrevious
    \/ MultiLaunch
    \/ MultiBody
    \/ MultiGenFinalize
    \/ MultiWithExit

SpecUtils == InitUtils /\ [][NextUtils]_vars

(***************************************************************************)
(* Claims about the utilities (specification SpecUtils).                   *)
(***************************************************************************)
\* whether the lower-cased title or description of the call mentions one
\* of the keywords
Mentions(keywords) ==
    \E keyword \in keywords, text \in {ustate.title, ustate.description} :
        \E start \in 1..Len(text) :
            \A k \in 1..Len(keyword) :
                /\ start + k - 1 <= Len(text)
                /\ LowerWord(text[start + k - 1]) = keyword[k]

HasLabel(names) == ustate.labels \cap names # {}

C27_NavigateWithRetryBounded ==
    ustate.mode = "navigate" =>
        /\ ustate.gotos = Len(ustate.outcomes)
        /\ ustate.gotos <= ustate.max_retries
        /\ \A k \in 1..(Len(ustate.outcomes) - 1) : ustate.outcomes[k] = "raised"
        /\ ustate.pc = "loop" =>
              /\ ustate.returned = <<>>
              /\ \A k \in 1..Len(ustate.outcomes) : ustate.outcomes[k] = "raised"
        /\ ustate.pc = "done" =>
              /\ ustate.returned \in {<<TRUE>>, <<FALSE>>}
              /\ ustate.returned = <<TRUE>> <=>
                    \E k \in 1..Len(ustate.outcomes) : ustate.outcomes[k] = "ok"
              /\ ustate.returned = <<FALSE>> => ustate.gotos = ustate.max_retries

C27_Witness ==
    /\ ustate.mode = "navigate"
    /\ ustate.pc = "done"
    /\ ustate.max_retries = 3
    /\ ustate.outcomes = <<"raised", "raised", "raised">>
    /\ ustate.returned = <<FALSE>>

\* the managers whose browser is open
OpenBrowsers == {k \in DOMAIN ustate.res : "browser" \in ustate.res[k]}

\* C28: iterating a MultiBrowserManager keeps at most one browser open at
\* a time: the browser of one engine is closed before the next is
\* launched, a launch failure still runs that manager's cleanup, and after
\* the with block (ended normally, by exception or after a break) every
\* browser that was launched has been closed.
C28_OneBrowserAtATime ==
    ustate.mode = "multi" =>
        /\ Cardinality(OpenBrowsers) <= 1
        /\ ustate.pc = "body" =>
              /\ OpenBrowsers = {ustate.idx}
              /\ \A k \in 1..(ustate.idx - 1) :
                    ustate.res[k] = {} /\ ustate.exits[k] >= 1
        /\ ustate.exc = "enter" =>
              ustate.res[ustate.idx] = {} /\ ustate.exits[ustate.idx] >= 1
        /\ ustate.pc = "done" =>
              \A k \in DOMAIN ustate.res : ustate.res[k] = {}

C28_Witness ==
    /\ ustate.mode = "multi"
    /\ ustate.pc = "done"
    /\ ustate.launched = {1, 2}
    /\ ustate.broke
    /\ ustate.exits[1] = 2

\* the cleanup calls one __exit__ makes on a manager with these attributes
CleanupCalls(fields) ==
    SelectSeq(<<"context.close", "browser.close", "playwright.stop">>,
              LAMBDA call :
                  \/ call = "context.close" /\ "context" \in fields
                  \/ call = "browser.close" /\ "browser" \in fields
                  \/ call = "playwright.stop" /\ "playwright" \in fields)

\* C29: BrowserManager.__exit__ attempts context close, browser close and
\* Playwright stop in that order, each one even when an earlier one
\* raised; it never raises, it returns False, the exception of the with
\* body is neither suppressed nor replaced, and a second call does the
\* same.
C29_ExitAttemptsEveryStep ==
    ustate.mode = "manager" =>
        /\ ustate.pending = ustate.with_exc
        /\ \A k \in 1..Len(ustate.returned) : ustate.returned[k] = "False"
        /\ ustate.pc = "returned" =>
              /\ Len(ustate.returned) \in {1, 2}
              /\ ustate.calls =
                    IF Len(ustate.returned) = 1
                    THEN CleanupCalls(ustate.fields)
                    ELSE CleanupCalls(ustate.fields) \o CleanupCalls(ustate.fields)

C29_Witness ==
    /\ ustate.mode = "manager"
    /\ ustate.pc = "returned"
    /\ ustate.with_exc = "body"
    /\ ustate.raised = {"context.close", "browser.close"}
    /\ ustate.calls = <<"context.close", "browser.close", "playwright.stop",
                        "context.close", "browser.close", "playwright.stop">>
    /\ ustate.returned = <<"False", "False">>

====
